---- MODULE Spec2Model ----
(***************************************************************************)
(* Movement controller of src/server/movement_controller.py: the control   *)
(* loop run(), the class Axis and the class Position.                      *)
(*                                                                         *)
(* Positions are Python floats.  A finite position is held as an integer   *)
(* number of quarter steps (one unit = STEP_INCREMENT / 4), so that the    *)
(* deadzone STEP_INCREMENT / 2 and values strictly inside and outside it   *)
(* are all representable.  The non-finite floats nan, +inf and -inf are    *)
(* kept as values of their own, with the arithmetic and the comparisons    *)
(* IEEE 754 gives them.  A target that is not a number (a str) is a value  *)
(* of its own too: arithmetic on it raises TypeError, which ends run().    *)
(* clean_up() is modelled after a stop of the loop at any statement.       *)
(***************************************************************************)
EXTENDS Integers, Sequences, FiniteSets, TLC

\* ---------------------------------------------------------------- constants
\* STEP_INCREMENT = 5.08 / 400, in quarter-step units.
STEP_INCREMENT == 4

\* CW = 1, CCW = 0: the two levels of a direction pin.
CW == 1
CCW == 0

\* GPIO.HIGH and GPIO.LOW.
HIGH == 1
LOW == 0

\* The five axes x, y, z, a, b in the order run() handles them.
NumAxes == 5
Axes == 1..NumAxes
AxisName == <<"x", "y", "z", "a", "b">>

\* ------------------------------------------------------------------- bounds
\* Largest magnitude (quarter steps) a finite position takes in the model.
\* A float absorbs an addend that is small against its magnitude; the model
\* float does so at MaxPos.
MaxPos == 20
\* Largest n of the targets n * STEP_INCREMENT.
MaxN == 3
\* The call counter of the single-axis harness counts up to MaxCalls.
MaxCalls == 5
\* The counter of step edges of an axis counts up to MaxNet either way.
MaxNet == 6

\* ------------------------------------------------------------------- floats
Fin(n) == [c |-> "fin", v |-> n]
NaN == [c |-> "nan", v |-> 0]
Inf(s) == [c |-> "inf", v |-> s]

\* A value that is not a number: a str (None, a list, ... behave alike).
Str == [c |-> "str", v |-> 0]

IsFin(a) == a.c = "fin"
IsNaN(a) == a.c = "nan"
IsInf(a) == a.c = "inf"

\* The value is a Python float.
IsFloat(a) == a.c \in {"fin", "nan", "inf"}

Abs(n) == IF n < 0 THEN -n ELSE n

FNeg(a) == IF IsNaN(a) THEN NaN ELSE [c |-> a.c, v |-> -a.v]

\* float + float.  A finite sum whose magnitude would pass MaxPos leaves the
\* left operand unchanged (absorption).
FAdd(a, b) ==
    IF IsNaN(a) \/ IsNaN(b) THEN NaN
    ELSE IF IsInf(a) /\ IsInf(b) THEN (IF a.v = b.v THEN a ELSE NaN)
    ELSE IF IsInf(a) THEN a
    ELSE IF IsInf(b) THEN b
    ELSE IF Abs(a.v + b.v) > MaxPos THEN a
    ELSE Fin(a.v + b.v)

\* float - float, exact on the finite values of the model.
FSub(a, b) ==
    IF IsNaN(a) \/ IsNaN(b) THEN NaN
    ELSE IF IsInf(a) /\ IsInf(b) THEN (IF a.v = b.v THEN NaN ELSE a)
    ELSE IF IsInf(a) THEN a
    ELSE IF IsInf(b) THEN FNeg(b)
    ELSE Fin(a.v - b.v)

\* abs(float)
FAbs(a) == IF IsNaN(a) THEN NaN ELSE [c |-> a.c, v |-> Abs(a.v)]

\* float < float: false as soon as one side is nan.
FLt(a, b) ==
    IF IsNaN(a) \/ IsNaN(b) THEN FALSE
    ELSE IF IsInf(a) /\ IsInf(b) THEN a.v < b.v
    ELSE IF IsInf(a) THEN a.v < 0
    ELSE IF IsInf(b) THEN b.v > 0
    ELSE a.v < b.v

\* float <= float
FLe(a, b) ==
    IF IsNaN(a) \/ IsNaN(b) THEN FALSE
    ELSE IF IsInf(a) /\ IsInf(b) THEN a.v <= b.v
    ELSE IF IsInf(a) THEN a.v < 0
    ELSE IF IsInf(b) THEN b.v > 0
    ELSE a.v <= b.v

\* ----------------------------------------------------------------- Position
\* Mutant of the subtraction in Position.__eq__: a str counts as 0.0.
Position_eq_raises_never(p, q) == FALSE

\* Position.__eq__ on two Positions, "self.pos - other.pos": float - str
\* raises TypeError.
Position_eq_raises(p, q) == ~IsFloat(p) \/ ~IsFloat(q)

\* Position.__eq__ on two Positions: inside the deadzone of half a step.
\* (The value it returns when it does not raise.)
Position_eq(p, q) == FLe(FAbs(FSub(p, q)), Fin(STEP_INCREMENT \div 2))

\* Position.__lt__ on two Positions.
Position_lt(p, q) == IF Position_eq(p, q) THEN FALSE ELSE FLt(p, q)

\* Position.__gt__, which functools.total_ordering derives from __lt__ and
\* __eq__: not (self < other) and self != other.
Position_gt(p, q) == ~Position_lt(p, q) /\ ~Position_eq(p, q)

\* ------------------------------------- Position against any Python object
\* An object: a Position whose pos is val, or the value val of another class.
Obj(cls, val) == [cls |-> cls, val |-> val]

\* What a comparison ends in.
Bool(b) == IF b THEN "True" ELSE "False"
Not(r) == IF r = "TypeError" THEN r ELSE Bool(r = "False")
And(r, t) == IF r = "TypeError" THEN r ELSE IF r = "False" THEN r ELSE t
Or(r, t) == IF r = "TypeError" THEN r ELSE IF r = "True" THEN r ELSE t

\* Mutant of Position.__eq__: a float operand is taken for a position.
Position_eq_any_coerce(p, o) ==
    IF o.cls \in {"Position", "float"}
    THEN IF Position_eq_raises(p, o.val) THEN "TypeError"
         ELSE Bool(Position_eq(p, o.val))
    ELSE "TypeError"

\* Position.__eq__(self, other) for self.pos = p and any object other.
Position_eq_any(p, o) ==
    IF o.cls = "Position"
    THEN IF Position_eq_raises(p, o.val) THEN "TypeError"
         ELSE Bool(Position_eq(p, o.val))
    ELSE "TypeError"

\* Position.__lt__(self, other)
Position_lt_any(p, o) ==
    IF o.cls = "Position"
    THEN IF Position_eq_any(p, o) = "TypeError" THEN "TypeError"
         ELSE IF Position_eq_any(p, o) = "True" THEN "False"
         ELSE Bool(FLt(p, o.val))
    ELSE "TypeError"

\* self != other: object.__ne__ inverts what __eq__ returns.
Position_ne_any(p, o) == Not(Position_eq_any(p, o))

\* The operators functools.total_ordering derives from __lt__:
\* __gt__ is "not (self < other) and self != other", __le__ is
\* "self < other or self == other", __ge__ is "not (self < other)".
Position_gt_any(p, o) == And(Not(Position_lt_any(p, o)), Position_ne_any(p, o))
Position_le_any(p, o) == Or(Position_lt_any(p, o), Position_eq_any(p, o))
Position_ge_any(p, o) == Not(Position_lt_any(p, o))

Operators == {"eq", "ne", "lt", "le", "gt", "ge"}

\* The operator Python falls back to, with the operands swapped, when the
\* left operand's own method returns NotImplemented.
Reflected(op) ==
    CASE op = "lt" -> "gt" [] op = "gt" -> "lt"
      [] op = "le" -> "ge" [] op = "ge" -> "le"
      [] OTHER -> op

\* Position(p) <op> other
PositionOp(op, p, o) ==
    CASE op = "eq" -> Position_eq_any(p, o)
      [] op = "ne" -> Position_ne_any(p, o)
      [] op = "lt" -> Position_lt_any(p, o)
      [] op = "le" -> Position_le_any(p, o)
      [] op = "gt" -> Position_gt_any(p, o)
      [] op = "ge" -> Position_ge_any(p, o)

\* other <op> Position(p): a Position on the left uses its own method; a
\* float or a str returns NotImplemented and Python calls the reflected
\* method of the Position.
OpPosition(op, o, p) ==
    IF o.cls = "Position" THEN PositionOp(op, o.val, Obj("Position", p))
    ELSE PositionOp(Reflected(op), p, o)

\* Mutant of Position.increment: two steps at once.
Position_increment_twice(p) == FAdd(p, Fin(2 * STEP_INCREMENT))

\* Position.increment
Position_increment(p) == FAdd(p, Fin(STEP_INCREMENT))

\* Mutant of Position.decrement: two steps at once.
Position_decrement_twice(p) == FAdd(p, Fin(-2 * STEP_INCREMENT))

\* Position.decrement
Position_decrement(p) == FAdd(p, Fin(-STEP_INCREMENT))

\* -------------------------------------------------------------------- state
VARIABLES
    pc,         \* the statement the thread of control is at
    idx,        \* the axis that statement is about (1..5)
    cur,        \* Axis._current_position.pos of each axis
    tgt,        \* Axis._target_position.pos of each axis
    targets,    \* data.targets, the command source's target of each axis
    zero_cmd,   \* data.zero_cmd
    step,       \* level of each axis's step pin
    dir,        \* level of each axis's direction pin
    sleepPin,   \* level of the SLEEP pin
    setup,      \* whether the pins are set up as outputs (GPIO.setup)
    net,        \* history: rising step edges of each axis since its last
                \* reset by zero_if_cmd, those with the direction pin at CCW
                \* minus those with the direction pin at CW
    log,        \* history: the GPIO.output calls of the running cycle, in order
    dwells,     \* history: the time.sleep calls of the running cycle
    allin,      \* history: what is_in_position(...) returned in the cycle
    zread,      \* history: what the running cycle read from data.zero_cmd
    zdone,      \* history: the axes zero_if_cmd has reset in the running cycle
    zwrote,     \* history: whether the running cycle has written data.zero_cmd
    cur0,       \* history: cur when the running cycle (or call of move) began
    tgt0,       \* history: tgt when the running cycle began
    calls,      \* history: calls of move() made by the single-axis driver
    pos0,       \* history: cur of axis x when the single-axis driver began
    cmp,        \* result of the comparisons of the comparison driver
    ext         \* external writes to the command source still to come

axisVars == <<cur, tgt>>
cmdVars == <<targets, zero_cmd>>
pinVars == <<step, dir, sleepPin, setup, net>>
zeroHist == <<zread, zdone, zwrote>>
startHist == <<cur0, tgt0>>
testVars == <<calls, pos0, cmp, ext>>
vars == <<pc, idx, cur, tgt, targets, zero_cmd, step, dir, sleepPin, setup, net,
          log, dwells, allin, zread, zdone, zwrote, cur0, tgt0, calls, pos0,
          cmp,
          ext>>

\* ------------------------------------------------------------ GPIO.output
Entry(pin, i, l) == [pin |-> pin, ax |-> i, lv |-> l]

\* The edge counter after one more rising edge at direction level d.
Edge(n, d) ==
    IF d = CCW THEN (IF n < MaxNet THEN n + 1 ELSE n)
    ELSE (IF n > -MaxNet THEN n - 1 ELSE n)

\* GPIO.output(axis._step_pin, l)
OutputStep(i, l) ==
    /\ step' = [step EXCEPT ![i] = l]
    /\ log' = Append(log, Entry("step", i, l))
    /\ net' = IF step[i] = LOW /\ l = HIGH
              THEN [net EXCEPT ![i] = Edge(net[i], dir[i])]
              ELSE net
    /\ UNCHANGED <<dir, sleepPin, setup>>

\* Mutant of the direction write: every axis drives the direction pin of
\* axis x.
OutputDir_shared(i, l) ==
    /\ dir' = [dir EXCEPT ![1] = l]
    /\ log' = Append(log, Entry("dir", 1, l))
    /\ UNCHANGED <<step, sleepPin, setup, net>>

\* GPIO.output(axis._dir_pin, l)
OutputDir(i, l) ==
    /\ dir' = [dir EXCEPT ![i] = l]
    /\ log' = Append(log, Entry("dir", i, l))
    /\ UNCHANGED <<step, sleepPin, setup, net>>

\* GPIO.output(SLEEP, l)
OutputSleep(l) ==
    /\ sleepPin' = l
    /\ log' = Append(log, Entry("sleep", 0, l))
    /\ UNCHANGED <<step, dir, setup, net>>

\* --------------------------------------------------------------------- Axis
\* Mutant of Axis.is_in_position: the command source is read again.
Axis_is_in_position_live(i) == Position_eq(cur[i], targets[i])

\* Axis.is_in_position
Axis_is_in_position(i) == Position_eq(cur[i], tgt[i])

\* is_in_position(*axes): all(...) over the five axes
is_in_position == \A i \in Axes : Axis_is_in_position(i)

\* Mutant of the branch Axis.move takes: the floats are compared without
\* the deadzone.
MoveBranch_no_deadzone(i) ==
    IF FLt(cur[i], tgt[i]) THEN "inc_dir"
    ELSE IF FLt(tgt[i], cur[i]) THEN "dec_dir"
    ELSE "none"

\* is_in_position(*axes) raises: all() asks the axes in order and stops at
\* the first one that is not in position, so the TypeError of an axis whose
\* target is not a number comes out only if every axis before it is in
\* position.
is_in_position_raises ==
    \E i \in Axes :
        /\ Position_eq_raises(cur[i], tgt[i])
        /\ \A j \in 1..(i - 1) :
               ~Position_eq_raises(cur[j], tgt[j]) /\ Axis_is_in_position(j)

\* The branch Axis.move takes.
MoveBranch(i) ==
    IF Position_lt(cur[i], tgt[i]) THEN "inc_dir"
    ELSE IF Position_gt(cur[i], tgt[i]) THEN "dec_dir"
    ELSE "none"

\* Axis.move, the if / elif / else; ret is where control goes when move
\* returns.  The first comparison raises TypeError when the target is not a
\* number, and nothing in run() catches it.
Axis_move(i, ret) ==
    /\ pc = "move" /\ idx = i
    /\ IF Position_eq_raises(cur[i], tgt[i]) THEN pc' = "TypeError" /\ idx' = i
       ELSE IF MoveBranch(i) = "none" THEN ret
       ELSE pc' = MoveBranch(i) /\ idx' = i
    /\ UNCHANGED <<axisVars, cmdVars, pinVars, log, dwells, allin, zeroHist,
                   startHist, testVars>>

\* Axis._step_increase, first line: the direction pin gets CCW.
Axis_step_increase_dir(i) ==
    /\ pc = "inc_dir" /\ idx = i
    /\ OutputDir(i, CCW)
    /\ pc' = "inc_step"
    /\ UNCHANGED <<idx, axisVars, cmdVars, dwells, allin, zeroHist,
                   startHist, testVars>>

\* Axis._step_increase, second line: the step pin goes HIGH.
Axis_step_increase_step(i) ==
    /\ pc = "inc_step" /\ idx = i
    /\ OutputStep(i, HIGH)
    /\ pc' = "inc_pos"
    /\ UNCHANGED <<idx, axisVars, cmdVars, dwells, allin, zeroHist,
                   startHist, testVars>>

\* Axis.move, self._current_position.increment()
Axis_move_increment(i, ret) ==
    /\ pc = "inc_pos" /\ idx = i
    /\ cur' = [cur EXCEPT ![i] = Position_increment(cur[i])]
    /\ ret
    /\ UNCHANGED <<tgt, cmdVars, pinVars, log, dwells, allin, zeroHist,
                   startHist,
                   testVars>>

\* Mutant of Axis._step_decrease: the direction pin gets CCW.
Axis_step_decrease_dir_ccw(i) ==
    /\ pc = "dec_dir" /\ idx = i
    /\ OutputDir(i, CCW)
    /\ pc' = "dec_step"
    /\ UNCHANGED <<idx, axisVars, cmdVars, dwells, allin, zeroHist,
                   startHist, testVars>>

\* Axis._step_decrease, first line: the direction pin gets CW.
Axis_step_decrease_dir(i) ==
    /\ pc = "dec_dir" /\ idx = i
    /\ OutputDir(i, CW)
    /\ pc' = "dec_step"
    /\ UNCHANGED <<idx, axisVars, cmdVars, dwells, allin, zeroHist,
                   startHist, testVars>>

\* Axis._step_decrease, second line: the step pin goes HIGH.
Axis_step_decrease_step(i) ==
    /\ pc = "dec_step" /\ idx = i
    /\ OutputStep(i, HIGH)
    /\ pc' = "dec_pos"
    /\ UNCHANGED <<idx, axisVars, cmdVars, dwells, allin, zeroHist,
                   startHist, testVars>>

\* Axis.move, self._current_position.decrement()
Axis_move_decrement(i, ret) ==
    /\ pc = "dec_pos" /\ idx = i
    /\ cur' = [cur EXCEPT ![i] = Position_decrement(cur[i])]
    /\ ret
    /\ UNCHANGED <<tgt, cmdVars, pinVars, log, dwells, allin, zeroHist,
                   startHist,
                   testVars>>

\* Mutant of Axis.pulse_low: the step pin is left HIGH.
Axis_pulse_low_stuck(i) == OutputStep(i, HIGH)

\* Axis.pulse_low
Axis_pulse_low(i) == OutputStep(i, LOW)

\* ---------------------------------------------------------------- the loop
\* zero_if_cmd, "if data.zero_cmd": the first statement of an iteration of
\* the while loop of run().  The history of the cycle starts afresh here.
ZeroIf ==
    /\ pc = "zero_if"
    /\ pc' = IF zero_cmd THEN "zero_axis" ELSE "set_target"
    /\ idx' = 1
    /\ zread' = zero_cmd
    /\ zdone' = {}
    /\ zwrote' = FALSE
    /\ log' = <<>>
    /\ dwells' = 0
    /\ allin' = "unknown"
    /\ cur0' = cur
    /\ tgt0' = tgt
    /\ UNCHANGED <<axisVars, cmdVars, pinVars, testVars>>

\* Mutant of the body of zero_if_cmd: the target position is not reset.
ZeroAxis_current_only(i) ==
    /\ pc = "zero_axis" /\ idx = i
    /\ cur' = [cur EXCEPT ![i] = Fin(0)]
    /\ zdone' = zdone \cup {i}
    /\ net' = [net EXCEPT ![i] = 0]
    /\ IF i < NumAxes THEN pc' = "zero_axis" /\ idx' = i + 1
       ELSE pc' = "zero_clear" /\ idx' = 1
    /\ UNCHANGED <<tgt, cmdVars, step, dir, sleepPin, setup, log, dwells,
                   allin, zread, zwrote, startHist, testVars>>

\* zero_if_cmd, the body of "for axis in axes" for one axis.
ZeroAxis(i) ==
    /\ pc = "zero_axis" /\ idx = i
    /\ cur' = [cur EXCEPT ![i] = Fin(0)]
    /\ tgt' = [tgt EXCEPT ![i] = Fin(0)]
    /\ zdone' = zdone \cup {i}
    /\ net' = [net EXCEPT ![i] = 0]
    /\ IF i < NumAxes THEN pc' = "zero_axis" /\ idx' = i + 1
       ELSE pc' = "zero_clear" /\ idx' = 1
    /\ UNCHANGED <<cmdVars, step, dir, sleepPin, setup, log, dwells, allin,
                   zread, zwrote, startHist, testVars>>

\* zero_if_cmd, "data.zero_cmd = False".
ZeroClear ==
    /\ pc = "zero_clear"
    /\ zero_cmd' = FALSE
    /\ zwrote' = TRUE
    /\ pc' = "set_target" /\ idx' = 1
    /\ UNCHANGED <<axisVars, targets, pinVars, log, dwells, allin, zread, zdone,
                   startHist, testVars>>

\* run(), "<axis>.target_position = data.targets[<name>]" for one axis.
SetTarget(i) ==
    /\ pc = "set_target" /\ idx = i
    /\ tgt' = [tgt EXCEPT ![i] = targets[i]]
    /\ IF i < NumAxes THEN pc' = "set_target" /\ idx' = i + 1
       ELSE pc' = "check" /\ idx' = 1
    /\ UNCHANGED <<cur, cmdVars, pinVars, log, dwells, allin, zeroHist,
                   startHist,
                   testVars>>

\* run(), "if not is_in_position(x_axis, y_axis, z_axis, a_axis, b_axis)".
Check ==
    /\ pc = "check"
    /\ IF is_in_position_raises
       THEN allin' = "raised" /\ pc' = "TypeError"
       ELSE /\ allin' = IF is_in_position THEN "yes" ELSE "no"
            /\ pc' = IF is_in_position THEN "sleep" ELSE "wake"
    /\ UNCHANGED <<idx, axisVars, cmdVars, pinVars, log, dwells, zeroHist, startHist,
                   testVars>>

\* Mutant of wake_up: the SLEEP pin is not written.
wake_up_missing ==
    /\ pc = "wake"
    /\ pc' = "move" /\ idx' = 1
    /\ UNCHANGED <<axisVars, cmdVars, pinVars, log, dwells, allin, zeroHist,
                   startHist, testVars>>

\* wake_up
wake_up ==
    /\ pc = "wake"
    /\ OutputSleep(HIGH)
    /\ pc' = "move" /\ idx' = 1
    /\ UNCHANGED <<axisVars, cmdVars, dwells, allin, zeroHist, startHist,
                   testVars>>

\* Where run() goes on when the move() of axis i has returned.
AfterMove(i) ==
    IF i < NumAxes THEN pc' = "move" /\ idx' = i + 1
    ELSE pc' = "dwell1" /\ idx' = 1

\* run(), "<axis>.move()" for the five axes in turn.
RunMove(i) == Axis_move(i, AfterMove(i))

RunIncrement(i) == Axis_move_increment(i, AfterMove(i))

RunDecrement(i) == Axis_move_decrement(i, AfterMove(i))

\* run(), the first time.sleep(0.00075).
Dwell1 ==
    /\ pc = "dwell1"
    /\ dwells' = dwells + 1
    /\ pc' = "pulse_low" /\ idx' = 1
    /\ UNCHANGED <<axisVars, cmdVars, pinVars, log, allin, zeroHist,
                   startHist, testVars>>

\* Mutant of the pulse_low calls of run(): b_axis.pulse_low() is missing.
RunPulseLow_without_b(i) ==
    /\ pc = "pulse_low" /\ idx = i
    /\ IF i < NumAxes
       THEN Axis_pulse_low(i) /\ pc' = "pulse_low" /\ idx' = i + 1
       ELSE pc' = "dwell2" /\ idx' = 1 /\ UNCHANGED <<pinVars, log>>
    /\ UNCHANGED <<axisVars, cmdVars, dwells, allin, zeroHist, startHist,
                   testVars>>

\* run(), "<axis>.pulse_low()" for the five axes in turn.
RunPulseLow(i) ==
    /\ pc = "pulse_low" /\ idx = i
    /\ Axis_pulse_low(i)
    /\ IF i < NumAxes THEN pc' = "pulse_low" /\ idx' = i + 1
       ELSE pc' = "dwell2" /\ idx' = 1
    /\ UNCHANGED <<axisVars, cmdVars, dwells, allin, zeroHist, startHist,
                   testVars>>

\* run(), the second time.sleep(0.00075); the iteration ends.
Dwell2 ==
    /\ pc = "dwell2"
    /\ dwells' = dwells + 1
    /\ pc' = "zero_if"
    /\ UNCHANGED <<idx, axisVars, cmdVars, pinVars, log, allin, zeroHist,
                   startHist,
                   testVars>>

\* Mutant of sleep: the SLEEP pin gets the awake level.
sleep_awake ==
    /\ pc = "sleep"
    /\ OutputSleep(HIGH)
    /\ pc' = "zero_if"
    /\ UNCHANGED <<idx, axisVars, cmdVars, dwells, allin, zeroHist, startHist,
                   testVars>>

\* sleep; the iteration ends.
sleep ==
    /\ pc = "sleep"
    /\ OutputSleep(LOW)
    /\ pc' = "zero_if"
    /\ UNCHANGED <<idx, axisVars, cmdVars, dwells, allin, zeroHist,
                   startHist, testVars>>

\* One statement of run().
Loop ==
    \/ ZeroIf
    \/ \E i \in Axes : ZeroAxis(i)
    \/ ZeroClear
    \/ \E i \in Axes : SetTarget(i)
    \/ Check
    \/ wake_up
    \/ \E i \in Axes : RunMove(i)
    \/ \E i \in Axes : Axis_step_increase_dir(i)
    \/ \E i \in Axes : Axis_step_increase_step(i)
    \/ \E i \in Axes : RunIncrement(i)
    \/ \E i \in Axes : Axis_step_decrease_dir(i)
    \/ \E i \in Axes : Axis_step_decrease_step(i)
    \/ \E i \in Axes : RunDecrement(i)
    \/ Dwell1
    \/ \E i \in Axes : RunPulseLow(i)
    \/ Dwell2
    \/ sleep

\* The state in which control is at statement p and axis x has the current
\* position c and the target position t; everything else is as constructed.
Start(p, c, t) ==
    /\ pc = p /\ idx = 1
    /\ cur = [i \in Axes |-> IF i = 1 THEN c ELSE Fin(0)]
    /\ tgt = [i \in Axes |-> IF i = 1 THEN t ELSE Fin(0)]
    /\ step = [i \in Axes |-> LOW]
    /\ dir = [i \in Axes |-> LOW]
    /\ sleepPin = LOW
    /\ setup = TRUE
    /\ net = [i \in Axes |-> 0]
    /\ log = <<>> /\ dwells = 0 /\ allin = "unknown"
    /\ zread = FALSE /\ zdone = {} /\ zwrote = FALSE
    /\ cur0 = cur /\ tgt0 = tgt
    /\ calls = 0 /\ pos0 = c
    /\ cmp = [eq |-> FALSE, lt |-> FALSE, rlt |-> FALSE, gt |-> FALSE]

\* The state after construction: set_up_gpio() has run and the five Axis
\* objects exist, each with two Position() of pos 0.0.
Constructed == Start("zero_if", Fin(0), Fin(0))

\* Targets the command source holds in the runs of the loop: inside the
\* deadzone of 0, one step up, a step and a quarter down, and nan.
TargetVals == {Fin(STEP_INCREMENT \div 2), Fin(STEP_INCREMENT),
               Fin(-STEP_INCREMENT - 1), NaN}

\* The loop against a command source nobody writes to after the start.
Init ==
    /\ Constructed
    /\ targets \in [Axes -> TargetVals]
    /\ zero_cmd \in BOOLEAN
    /\ ext = 0

Next == Loop

Spec == Init /\ [][Next]_vars

\* The loop never blocks for good: every statement of run() is followed by
\* the next one.
FairSpec == Spec /\ WF_vars(Next)

\* --------------------------------------------------------- the other actor
\* External writes to the command source in one run.
MaxExt == 2

\* Targets the other actor stores: 0, one step up, a step and a quarter down.
ExtTargetVals == {Fin(0), Fin(STEP_INCREMENT), Fin(-STEP_INCREMENT - 1)}

\* Another thread sets data.zero_cmd = True.
SetZero ==
    /\ ext > 0
    /\ ext' = ext - 1
    /\ zero_cmd' = TRUE
    /\ UNCHANGED <<pc, idx, axisVars, targets, pinVars, log, dwells, allin,
                   zeroHist, startHist, calls, pos0, cmp>>

\* Another thread stores data.targets[name] = v.
WriteTarget(i, v) ==
    /\ ext > 0
    /\ ext' = ext - 1
    /\ targets' = [targets EXCEPT ![i] = v]
    /\ UNCHANGED <<pc, idx, axisVars, zero_cmd, pinVars, log, dwells, allin,
                   zeroHist, startHist, calls, pos0, cmp>>

\* What the command source holds when the loop starts: the same target on
\* every axis, or a target on axis x alone.
CmdInit ==
    {[i \in Axes |-> v] : v \in ExtTargetVals}
        \cup {[i \in Axes |-> IF i = 1 THEN v ELSE Fin(0)] : v \in ExtTargetVals}

InitExt ==
    /\ Constructed
    /\ targets \in CmdInit
    /\ zero_cmd = FALSE
    /\ ext = MaxExt

\* The loop next to a thread that sets the zero flag and stores targets at
\* any moment.
NextExt ==
    \/ Loop
    \/ SetZero
    \/ \E i \in Axes, v \in ExtTargetVals : WriteTarget(i, v)

SpecExt == InitExt /\ [][NextExt]_vars

\* The loop next to a thread that sets the zero flag at any moment.
NextZero ==
    \/ Loop
    \/ SetZero

SpecZero == InitExt /\ [][NextZero]_vars

\* The loop runs on whatever the other thread does.
FairSpecZero == SpecZero /\ WF_vars(Loop)

\* ------------------------------------------- a target that is not a number
\* The loop next to a thread that stores a str as a target at any moment.
InitBad ==
    /\ Constructed
    /\ targets \in CmdInit
    /\ zero_cmd \in BOOLEAN
    /\ ext = MaxExt

NextBad ==
    \/ Loop
    \/ \E i \in Axes : WriteTarget(i, Str)

SpecBad == InitBad /\ [][NextBad]_vars

\* The loop runs on whatever the other thread does.
FairSpecBad == SpecBad /\ WF_vars(Loop)

\* ------------------------------------------------------- stop and clean_up
\* The statements of run().
LoopPcs == {"zero_if", "zero_axis", "zero_clear", "set_target", "check",
            "wake", "move", "inc_dir", "inc_step", "inc_pos", "dec_dir",
            "dec_step", "dec_pos", "dwell1", "pulse_low", "dwell2", "sleep"}

\* The process is told to end while run() is at any statement; the caller
\* goes on to clean_up().
Stop ==
    /\ pc \in LoopPcs
    /\ pc' = "clean_up"
    /\ UNCHANGED <<idx, axisVars, cmdVars, pinVars, log, dwells, allin,
                   zeroHist, startHist, testVars>>

\* clean_up, "GPIO.cleanup()": every channel that was set up is released
\* (made an input) and the pin numbering mode is forgotten.
GPIO_cleanup ==
    /\ pc = "clean_up"
    /\ setup' = FALSE
    /\ pc' = "clean_up_sleep"
    /\ UNCHANGED <<idx, axisVars, cmdVars, step, dir, sleepPin, net, log,
                   dwells, allin, zeroHist, startHist, testVars>>

\* clean_up, "sleep()": GPIO.output(SLEEP, GPIO.LOW).  RPi.GPIO refuses to
\* write a channel that is not set up as an output: RuntimeError.
clean_up_sleep ==
    /\ pc = "clean_up_sleep"
    /\ IF setup
       THEN OutputSleep(LOW) /\ pc' = "cleaned_up"
       ELSE pc' = "RuntimeError" /\ UNCHANGED <<pinVars, log>>
    /\ UNCHANGED <<idx, axisVars, cmdVars, dwells, allin, zeroHist,
                   startHist, testVars>>

InitStop ==
    /\ Constructed
    /\ targets \in CmdInit
    /\ zero_cmd \in BOOLEAN
    /\ ext = 0

NextStop ==
    \/ Loop
    \/ Stop
    \/ GPIO_cleanup
    \/ clean_up_sleep

SpecStop == InitStop /\ [][NextStop]_vars

\* ------------------------------------------------ driver: one axis alone
\* The non-finite floats.
NonFinite == {NaN, Inf(1), Inf(-1)}

\* Positions the single axis starts from, and targets it is given.
StartVals == {Fin(n) : n \in -STEP_INCREMENT..STEP_INCREMENT}
AxisTargets ==
    {Fin(n) : n \in -(MaxN * STEP_INCREMENT)..(MaxN * STEP_INCREMENT)}
        \cup NonFinite

Min(a, b) == IF a < b THEN a ELSE b

\* The driver calls x_axis.move(), as run() does once a cycle.
TestCall ==
    /\ pc = "t_call"
    /\ calls' = Min(calls + 1, MaxCalls)
    /\ log' = <<>>
    /\ cur0' = cur
    /\ pc' = "move" /\ idx' = 1
    /\ UNCHANGED <<axisVars, cmdVars, pinVars, dwells, allin, zeroHist, tgt0,
                   pos0, cmp, ext>>

\* move() returns to the driver.
TestReturn == pc' = "t_low" /\ idx' = 1

TestMove == Axis_move(1, TestReturn)

TestIncrement == Axis_move_increment(1, TestReturn)

TestDecrement == Axis_move_decrement(1, TestReturn)

\* The driver calls x_axis.pulse_low(), as run() does after the dwell.
TestPulseLow ==
    /\ pc = "t_low"
    /\ Axis_pulse_low(1)
    /\ pc' = "t_call"
    /\ UNCHANGED <<idx, axisVars, cmdVars, dwells, allin, zeroHist, startHist,
                   testVars>>

InitAxis ==
    /\ \E c \in StartVals, t \in AxisTargets : Start("t_call", c, t)
    /\ targets = [i \in Axes |-> Fin(0)]
    /\ zero_cmd = FALSE
    /\ ext = 0

NextAxis ==
    \/ TestCall
    \/ TestMove
    \/ Axis_step_increase_dir(1)
    \/ Axis_step_increase_step(1)
    \/ TestIncrement
    \/ Axis_step_decrease_dir(1)
    \/ Axis_step_decrease_step(1)
    \/ TestDecrement
    \/ TestPulseLow

SpecAxis == InitAxis /\ [][NextAxis]_vars

\* The driver goes on calling.
FairSpecAxis == SpecAxis /\ WF_vars(NextAxis)

\* -------------------------------------------- driver: comparing Positions
\* The values of the two Positions compared.
CmpVals == {Fin(n) : n \in -STEP_INCREMENT..STEP_INCREMENT} \cup NonFinite

\* p == q, p < q, q < p and p > q for the Positions p and q of axis x.
Compare ==
    /\ pc = "compare"
    /\ cmp' = [eq |-> Position_eq(cur[1], tgt[1]),
               lt |-> Position_lt(cur[1], tgt[1]),
               rlt |-> Position_lt(tgt[1], cur[1]),
               gt |-> Position_gt(cur[1], tgt[1])]
    /\ pc' = "compared"
    /\ UNCHANGED <<idx, axisVars, cmdVars, pinVars, log, dwells, allin,
                   zeroHist,
                   startHist, calls, pos0, ext>>

InitPos ==
    /\ \E p \in CmpVals, q \in CmpVals : Start("compare", p, q)
    /\ targets = [i \in Axes |-> Fin(0)]
    /\ zero_cmd = FALSE
    /\ ext = 0

NextPos == Compare

SpecPos == InitPos /\ [][NextPos]_vars

\* ---------------------------- driver: a Position against any other object
\* The objects a Position is compared with that are not Positions: floats
\* (0.0, one step, nan) and a str.
NonPositions == {Obj("float", Fin(0)), Obj("float", Fin(STEP_INCREMENT)),
                 Obj("float", NaN), Obj("str", Str)}

\* The other operand: a Position or not.
Others == NonPositions \cup {Obj("Position", q) : q \in CmpVals}

\* One comparison between the Position of axis x and another object, the
\* Position on the left (rev FALSE) or on the right (rev TRUE).
CompareAny ==
    /\ pc = "compare_any"
    /\ \E op \in Operators, o \in Others, rev \in BOOLEAN :
           cmp' = [op |-> op, rev |-> rev, other |-> o,
                   out |-> IF rev THEN OpPosition(op, o, cur[1])
                           ELSE PositionOp(op, cur[1], o)]
    /\ pc' = "compared_any"
    /\ UNCHANGED <<idx, axisVars, cmdVars, pinVars, log, dwells, allin,
                   zeroHist, startHist, calls, pos0, ext>>

InitAny ==
    /\ \E p \in CmpVals : Start("compare_any", p, Fin(0))
    /\ targets = [i \in Axes |-> Fin(0)]
    /\ zero_cmd = FALSE
    /\ ext = 0

NextAny == CompareAny

SpecAny == InitAny /\ [][NextAny]_vars

\* ----------------------------------------- properties of Position and Axis
Count(b) == IF b THEN 1 ELSE 0

\* C1: p == q iff |p.pos - q.pos| <= STEP_INCREMENT / 2, exactly one of
\* p == q, p < q, q < p holds, and the derived p > q is q < p.
C1_Trichotomy ==
    pc = "compared" =>
        /\ cmp.eq <=> FLe(FAbs(FSub(cur[1], tgt[1])), Fin(STEP_INCREMENT \div 2))
        /\ (IsFin(cur[1]) /\ IsFin(tgt[1])) =>
               (cmp.eq <=> 2 * Abs(cur[1].v - tgt[1].v) <= STEP_INCREMENT)
        /\ Count(cmp.eq) + Count(cmp.lt) + Count(cmp.rlt) = 1
        /\ cmp.gt <=> cmp.rlt

\* calls of move() that close a gap of d quarter steps: ceil(d / STEP_INCREMENT)
CeilSteps(d) == (d + STEP_INCREMENT - 1) \div STEP_INCREMENT

\* C2: from any starting position and for any fixed target, calling move()
\* again and again reaches is_in_position(), after at most
\* ceil(|target - current| / STEP_INCREMENT) calls.
C2_ReachesPosition ==
    /\ <>Axis_is_in_position(1)
    /\ []((/\ pc = "t_call"
           /\ IsFin(pos0) /\ IsFin(tgt[1])
           /\ calls >= CeilSteps(Abs(tgt[1].v - pos0.v)))
          => Axis_is_in_position(1))

\* |target - p| as a float
Gap(p) == FAbs(FSub(tgt[1], p))

\* C3: a call of move() leaves current_position alone or changes it by
\* exactly one STEP_INCREMENT, and a change makes |target - current| strictly
\* smaller.
C3_OneStepCloser ==
    pc = "t_low" =>
        \/ cur[1] = cur0[1]
        \/ /\ FAbs(FSub(cur[1], cur0[1])) = Fin(STEP_INCREMENT)
           /\ FLt(Gap(cur[1]), Gap(cur0[1]))

\* C10: with current 0 and target n * STEP_INCREMENT the axis is in position
\* after n calls of move() and not after fewer, and each of the n calls
\* writes the direction pin CCW (increase) and then the step pin HIGH.
C10_ExactlyNCalls ==
    \A n \in 0..MaxN :
        (pos0 = Fin(0) /\ tgt[1] = Fin(n * STEP_INCREMENT)) =>
            /\ pc = "t_call" => (Axis_is_in_position(1) <=> calls >= n)
            /\ pc = "t_low" =>
                   log = IF calls <= n
                         THEN <<Entry("dir", 1, CCW), Entry("step", 1, HIGH)>>
                         ELSE <<>>

\* C10 witness: the MaxN-th call has brought the axis from 0 into position
\* at MaxN * STEP_INCREMENT.
C10_Witness ==
    /\ pc = "t_low" /\ calls = MaxN
    /\ pos0 = Fin(0) /\ tgt[1] = Fin(MaxN * STEP_INCREMENT)
    /\ cur[1] = tgt[1]

\* ------------------------------------------------- properties of the loop
Zero == [i \in Axes |-> Fin(0)]

\* The cycle that began with the last ZeroIf has run to its end.
CycleEnded == pc = "zero_if" /\ allin # "unknown"

IsStepHigh(e) == e.pin = "step" /\ e.lv = HIGH

\* The last GPIO.output call of the statement just executed, if it made one.
Wrote(pin, i) ==
    /\ Len(log') = Len(log) + 1
    /\ log'[Len(log')].pin = pin
    /\ log'[Len(log')].ax = i

\* C4: with the targets of the command source fixed and no zero command
\* after the start, the loop reaches a cycle in which all five axes are in
\* position and the sleep signal is asserted disabled, and from then on no
\* axis moves and the sleep signal stays disabled.
C4_Converges ==
    /\ <>(CycleEnded /\ allin = "yes" /\ sleepPin = LOW)
    /\ <>[](is_in_position /\ sleepPin = LOW /\ cur = cur0
            /\ \A i \in Axes : step[i] = LOW)

\* C5: the direction signal of an axis is written only while its step
\* signal is LOW, the write comes right before the step signal's HIGH edge
\* of the same move, and the direction level never changes while the step
\* signal is HIGH.
C5_DirectionBeforeStep ==
    [][\A i \in Axes :
        /\ Wrote("dir", i) => step[i] = LOW
        /\ (step[i] = LOW /\ step'[i] = HIGH) =>
              /\ Len(log) > 0
              /\ log[Len(log)].pin = "dir"
              /\ log[Len(log)].ax = i
              /\ log[Len(log)].lv = dir[i]
        /\ step[i] = HIGH => dir'[i] = dir[i]]_vars

\* C5 witness: an axis that has moved in an earlier cycle is being stepped
\* down, its step signal HIGH and its direction signal changed to CW.
C5_Witness ==
    /\ pc = "dec_pos"
    /\ step[idx] = HIGH /\ dir[idx] = CW
    /\ cur0[idx] # Fin(0)

\* C6: in a cycle that found an axis out of position the wake write comes
\* before every step-HIGH write of the cycle, and by the end of the cycle
\* pulse_low has been called on each of the five axes after all the moves.
C6_WakeFirstPulseLowAll ==
    allin = "no" =>
        /\ \A k \in 1..Len(log) : IsStepHigh(log[k]) =>
               \E j \in 1..(k - 1) : log[j] = Entry("sleep", 0, HIGH)
        /\ CycleEnded =>
               \A i \in Axes : \E k \in 1..Len(log) :
                   /\ log[k] = Entry("step", i, LOW)
                   /\ \A j \in 1..Len(log) : IsStepHigh(log[j]) => j < k

\* C6 witness: a finished moving cycle in which one axis moved and another
\* one did not.
C6_Witness ==
    /\ CycleEnded /\ allin = "no"
    /\ \E i, j \in Axes : cur[i] # cur0[i] /\ cur[j] = cur0[j]

\* C7 as stated: a cycle that found all five axes in position wrote the
\* sleep signal LOW and nothing else, took no dwell and changed no current
\* position.
C7_IdleCycleAsStated ==
    (CycleEnded /\ allin = "yes") =>
        /\ log = <<Entry("sleep", 0, LOW)>>
        /\ dwells = 0
        /\ cur = cur0

\* C7 amended: a cycle that found all five axes in position wrote the sleep
\* signal LOW and nothing else and took no dwell; it changed no current
\* position unless it consumed a zero command, which set them all to 0.
C7_IdleCycle ==
    (CycleEnded /\ allin = "yes") =>
        /\ log = <<Entry("sleep", 0, LOW)>>
        /\ sleepPin = LOW
        /\ dwells = 0
        /\ cur = IF zread THEN Zero ELSE cur0

\* C7 witness: an idle cycle has ended that consumed a zero command and
\* reset an axis that was away from 0.
C7_Witness ==
    /\ CycleEnded /\ allin = "yes"
    /\ zread /\ \E i \in Axes : cur0[i] # Fin(0)

\* C8: when a cycle starts with zero_cmd set and every axis at a non-zero
\* current and target, then after its command ingestion (zero check, then
\* the five targets read) every axis has current 0 and target 0 and
\* zero_cmd is false.
C8_ZeroIngestion ==
    (/\ pc = "check"
     /\ zread
     /\ \A i \in Axes : cur0[i] # Fin(0) /\ tgt0[i] # Fin(0)) =>
        /\ cur = Zero
        /\ tgt = Zero
        /\ zero_cmd = FALSE

\* All five axes have just been reset by zero_if_cmd and the flag cleared.
ResetDone ==
    /\ pc = "set_target" /\ idx = 1
    /\ zread /\ zdone = Axes /\ zwrote
    /\ cur = Zero /\ tgt = Zero

\* C9: the controller clears zero_cmd only in a cycle that read it true and
\* only after current and target of all five axes are 0; a cycle that read
\* it false resets no axis and does not write the flag; whenever the flag is
\* set, a completed reset of all axes follows.
C9_ZeroConsumption ==
    /\ [][(zwrote' /\ ~zwrote) =>
            /\ zread /\ zdone = Axes
            /\ cur = Zero /\ tgt = Zero
            /\ ~zero_cmd']_vars
    /\ [](~zread => zdone = {} /\ ~zwrote)
    /\ [](zero_cmd => <>ResetDone)

\* C9 witness: the other thread has set the flag and the reset that
\* followed brought an axis back from a non-zero position.
C9_Witness ==
    /\ ResetDone
    /\ ext < MaxExt
    /\ \E i \in Axes : cur0[i] # Fin(0)

\* ------------------------------------------------ properties, second part
\* A call of move() by the single-axis driver is running or has returned.
InMove == pc \in {"move", "inc_dir", "inc_step", "inc_pos",
                  "dec_dir", "dec_step", "dec_pos", "t_low"}

\* C11: when is_in_position() is true at a call of move(), the call is a
\* no-op: it takes neither stepping branch, writes neither the step nor the
\* direction signal and leaves current_position and target_position as they
\* were.
C11_MoveNoOp ==
    (InMove /\ calls > 0 /\ Position_eq(cur0[1], tgt0[1])) =>
        /\ pc \in {"move", "t_low"}
        /\ log = <<>>
        /\ step[1] = LOW
        /\ cur = cur0
        /\ tgt = tgt0

\* C11 witness: a call of move() has returned that found the axis inside
\* the deadzone of its target, not on it, after an earlier call had moved it.
C11_Witness ==
    /\ pc = "t_low" /\ calls > 1
    /\ Position_eq(cur0[1], tgt0[1])
    /\ cur0[1] # tgt0[1]
    /\ cur[1] # pos0

\* C12: comparing a Position with a value that is not a Position, with ==,
\* !=, <, <=, > or >= and with the Position on either side, ends in a
\* TypeError: no boolean comes back and the value is not coerced.  (Two
\* Positions with float pos do get a boolean.)
C12_TypeMismatch ==
    pc = "compared_any" =>
        /\ cmp.other.cls # "Position" => cmp.out = "TypeError"
        /\ cmp.other.cls = "Position" => cmp.out \in {"True", "False"}

\* C12 witness: a float on the left of a derived operator, a Position whose
\* pos equals that float on the right.
C12_Witness ==
    /\ pc = "compared_any"
    /\ cmp.rev /\ cmp.op = "ge"
    /\ cmp.other = Obj("float", cur[1])
    /\ cmp.out = "TypeError"

\* clean_up() is over: it has returned or has raised.
CleanUpOver == pc \in {"cleaned_up", "RuntimeError"}

\* C13: clean_up, run after the loop stopped at any statement, completes
\* with the channels released and with the sleep signal written LOW (the
\* sleep state) as its last signal write.
C13_CleanUpSleeps ==
    CleanUpOver =>
        /\ pc = "cleaned_up"
        /\ ~setup
        /\ sleepPin = LOW
        /\ Len(log) > 0 /\ log[Len(log)] = Entry("sleep", 0, LOW)

\* The statements of Axis.move that step the motor.
StepPcs == {"inc_dir", "inc_step", "inc_pos", "dec_dir", "dec_step", "dec_pos"}

\* C14: a str that an axis has ingested as its target is not coerced: the
\* cycle goes no further than the move() of that axis (no dwell, no idle
\* branch, no next cycle), that axis takes no stepping branch and its
\* current position stays what it was (0 if the cycle began with a zero
\* command), and the cycle ends in a TypeError.
C14_NonNumericFailsFast ==
    /\ [](\A i \in Axes : tgt[i] = Str =>
            /\ pc \in {"set_target", "check", "wake", "move", "TypeError"}
                      \cup StepPcs
            /\ pc \in {"move", "TypeError"} => idx <= i
            /\ pc \in StepPcs => idx < i
            /\ cur[i] = IF zread THEN Fin(0) ELSE cur0[i])
    /\ ((\E i \in Axes : tgt[i] = Str) ~> pc = "TypeError")

\* C14 witness: the convergence check found axis x out of position, and
\* the move() of a later axis has raised on its str target.
C14_Witness ==
    /\ pc = "TypeError" /\ allin = "no"
    /\ idx > 1 /\ tgt[idx] = Str
    /\ ~Position_eq(cur0[1], tgt[1])
    /\ cur[idx] = cur0[idx]

\* The step-HIGH writes of axis i in the running cycle.
Pulses(i) == Cardinality({k \in 1..Len(log) : log[k] = Entry("step", i, HIGH)})

\* The current position of axis i after the zero check of the running cycle.
Base(i) == IF zread THEN Fin(0) ELSE cur0[i]

\* C15: in every iteration each axis gets at most one step pulse and its
\* current position ends at most one STEP_INCREMENT from where the zero
\* check left it; by the end of a moving cycle an axis has got exactly one
\* pulse (HIGH, then LOW) iff it was out of position at the ingested
\* target, and its position has changed iff it got the pulse; a current
\* position changes only by one step in move() or to 0 in zero_if_cmd.
C15_OneStepPerCycle ==
    /\ [](\A i \in Axes :
            LET n == Pulses(i)
                b == Base(i)
            IN  /\ n <= 1
                /\ pc \notin {"zero_if", "zero_axis"} =>
                       /\ FLe(FAbs(FSub(cur[i], b)), Fin(STEP_INCREMENT))
                       /\ (n = 0 /\ pc # "inc_pos" /\ pc # "dec_pos")
                              => cur[i] = b
                /\ (CycleEnded /\ allin = "no") =>
                       /\ n = 1 <=> ~Position_eq(b, tgt[i])
                       /\ n = 1 <=> cur[i] # b
                       /\ step[i] = LOW
                /\ (CycleEnded /\ allin = "yes") => n = 0)
    /\ [][\A i \in Axes : cur'[i] # cur[i] =>
            \/ /\ pc = "zero_axis" /\ idx = i /\ zread
               /\ cur'[i] = Fin(0)
            \/ /\ pc \in {"inc_pos", "dec_pos"} /\ idx = i
               /\ step[i] = HIGH
               /\ FAbs(FSub(cur'[i], cur[i])) = Fin(STEP_INCREMENT)]_vars

\* C15 witness: a moving cycle has ended that consumed a zero command,
\* stepped an axis up from the 0 it was reset to (it had been one step
\* below) and left another axis alone.
C15_Witness ==
    /\ CycleEnded /\ allin = "no" /\ zread
    /\ \E i, j \in Axes :
           /\ cur0[i] = Fin(-STEP_INCREMENT) /\ cur[i] = Fin(STEP_INCREMENT)
           /\ Pulses(i) = 1 /\ Pulses(j) = 0

\* C16: the target of an axis changes only when zero_if_cmd resets it or
\* when run() reads it from the command source, once per cycle; from then
\* to the end of the cycle the convergence check and the branch move()
\* takes are those of the value read, whatever is written to the command
\* source meanwhile, and such a write changes no signal and no position.
C16_IngestedTargetUsed ==
    /\ [](allin \in {"yes", "no"} =>
            (allin = "yes" <=> \A i \in Axes : Position_eq(Base(i), tgt[i])))
    /\ [](\A i \in Axes :
            /\ (pc \in {"inc_dir", "inc_step", "inc_pos"} /\ idx = i)
                   => Position_lt(Base(i), tgt[i])
            /\ (pc \in {"dec_dir", "dec_step", "dec_pos"} /\ idx = i)
                   => Position_gt(Base(i), tgt[i]))
    /\ [][/\ \A i \in Axes : tgt'[i] # tgt[i] =>
                /\ pc \in {"zero_axis", "set_target"} /\ idx = i
                /\ pc = "set_target" => tgt'[i] = targets[i]
          /\ (pc' = "set_target" /\ <<pc, idx>>' # <<pc, idx>>) =>
                \/ pc \in {"zero_if", "zero_clear"} /\ idx' = 1
                \/ pc = "set_target" /\ idx' = idx + 1
          /\ targets' # targets =>
                UNCHANGED <<pc, idx, cur, tgt, step, dir, sleepPin, log>>]_vars

\* C16 witness: an axis is being stepped up towards the target it
\* ingested while the command source already holds a target below it.
C16_Witness ==
    /\ pc = "inc_pos"
    /\ Position_lt(cur[idx], tgt[idx])
    /\ Position_gt(cur[idx], targets[idx])

\* The writes to the step and direction pins of axis i in the running cycle.
LogOf(i) == SelectSeq(log, LAMBDA e : e.ax = i)

\* The same without the step-LOW write of pulse_low on a pin that is LOW
\* already (every cycle starts with the step pins LOW).
Changing(i) ==
    IF LogOf(i) = <<Entry("step", i, LOW)>> THEN <<>> ELSE LogOf(i)

\* What one cycle does to an axis at position c with the target t, computed
\* from c and t alone: the position it ends at and the writes it gets.
OwnPos(c, t) ==
    IF Position_lt(c, t) THEN Position_increment(c)
    ELSE IF Position_gt(c, t) THEN Position_decrement(c)
    ELSE c

OwnWrites(i, c, t) ==
    IF Position_lt(c, t)
    THEN <<Entry("dir", i, CCW), Entry("step", i, HIGH), Entry("step", i, LOW)>>
    ELSE IF Position_gt(c, t)
    THEN <<Entry("dir", i, CW), Entry("step", i, HIGH), Entry("step", i, LOW)>>
    ELSE <<>>

\* The statements of run() that are about one axis, idx.
AxisPcs == {"zero_axis", "set_target", "move", "pulse_low"} \cup StepPcs

\* C17: the axes are independent.  Whatever the targets of the other axes,
\* the position an axis has at the end of a cycle and the writes of the
\* cycle to its step and direction pins (a step-LOW write on a LOW pin
\* apart) are those computed from its own position after the zero check
\* and its own ingested target, and a statement that is about another axis
\* or about none changes neither its positions nor its pins.  (Two runs
\* that agree on the axis's initial position, targets and zero commands
\* then agree, cycle by cycle, on its positions and level changes.)
C17_AxesIndependent ==
    /\ [](CycleEnded => \A i \in Axes :
            /\ cur[i] = OwnPos(Base(i), tgt[i])
            /\ Changing(i) = OwnWrites(i, Base(i), tgt[i]))
    /\ [][\A i \in Axes : (idx # i \/ pc \notin AxisPcs) =>
            /\ cur'[i] = cur[i] /\ tgt'[i] = tgt[i]
            /\ step'[i] = step[i] /\ dir'[i] = dir[i]]_vars

\* C17 witness: a moving cycle has ended in which an axis that rests one
\* step up, in position, got nothing but the step-LOW write, while an axis
\* with a nan target was stepped once more.
C17_Witness ==
    /\ CycleEnded
    /\ \E i, j \in Axes :
           /\ cur0[i] = Fin(STEP_INCREMENT) /\ cur[i] = cur0[i]
           /\ LogOf(i) # <<>> /\ Changing(i) = <<>>
           /\ IsNaN(tgt[j]) /\ cur[j] # cur0[j]

\* The statements of run() between wake_up() and the end of a moving cycle.
MovingPcs == {"move", "dwell1", "pulse_low", "dwell2"} \cup StepPcs

\* C18 as stated: a step signal that is HIGH implies the sleep signal is
\* awake, and once the targets of the cycle are ingested the sleep signal is
\* in the disabled state only while all five step signals are LOW and all
\* axes are in position against those targets.
C18_AsStated ==
    /\ \A i \in Axes : step[i] = HIGH => sleepPin = HIGH
    /\ (sleepPin = LOW /\ pc \in (LoopPcs \ {"zero_axis", "zero_clear",
                                               "set_target"})) =>
           /\ \A i \in Axes : step[i] = LOW
           /\ is_in_position

\* C18 amended: a step signal that is HIGH implies the sleep signal is
\* awake (the sleep signal is disabled only while all five step signals
\* are LOW), no statement of the moving branch runs with the sleep signal
\* disabled, and the sleep signal is written disabled only in a cycle
\* whose convergence check found all axes in position, with the axes still
\* in position and the step signals LOW.
C18_StepHighAwake ==
    /\ [](\A i \in Axes : step[i] = HIGH => sleepPin = HIGH)
    /\ [](pc \in MovingPcs => sleepPin = HIGH)
    /\ [][(Wrote("sleep", 0) /\ sleepPin' = LOW) =>
            /\ allin = "yes"
            /\ is_in_position
            /\ \A i \in Axes : step[i] = LOW]_vars

\* C18 witness: an idle cycle has put the driver to sleep after a move, and
\* the next cycle has ingested a target that is out of position: the sleep
\* signal is still disabled, the wake write is next.
C18_Witness ==
    /\ pc = "wake" /\ sleepPin = LOW
    /\ ~is_in_position
    /\ cur # Zero

C20_NoStepBeforeAbort ==
    pc = "TypeError" =>
        /\ \A i \in Axes : step[i] = LOW
        /\ \A i \in Axes : cur[i] = Base(i)

====
